---- MODULE Spec2Model ----
(***************************************************************************)
(* Model of src/src/lib.rs: ModelChecker::run, run_steps and               *)
(* extract_panic_payload, together with test::example.                     *)
(*                                                                         *)
(* The user's ModelState implementation is a parameter of the program.  It *)
(* is modelled by step_fn, a deterministic function from (state, step      *)
(* value) to either the next state or a panic payload, and by state_dom,   *)
(* the set of values M::gen can return.  Both are fixed in Init and never  *)
(* change.  The random generator is modelled by nondeterministic choice.   *)
(*                                                                         *)
(* Three specifications share the actions and differ in the models drawn:  *)
(*   Spec         every function over two states and two step values       *)
(*   SpecCounter  a counter modulo three whose three step values are each  *)
(*                bound to one of a catalogue of operations                *)
(*   SpecExample  test::example: TestModel, ten sessions of run(3)         *)
(*   SpecFault    the models of Spec, where one of the model's gen or      *)
(*                clone functions may panic                                *)
(***************************************************************************)
EXTENDS Integers, Sequences, FiniteSets, TLC

VARIABLES
    step_fn,       \* ModelState::step of the model under test
    state_dom,     \* values <M as Arbitrary>::gen can produce
    max_steps,     \* argument of run
    fault,         \* the gen or clone function of the model that may panic
    pc,            \* position inside run / run_steps
    state,         \* run: let state
    steps,         \* run: let mut steps
    last_error,    \* run: let mut last_error
    index,         \* run: let mut index
    iter,          \* run: number of iterations of the shrink loop started
    n,             \* run: end of the range 0..steps.len(), fixed at loop entry
    shrink_steps,  \* run: let mut shrink_steps
    caller,        \* which call site of run_steps is active
    t_state,       \* run_steps: mut state (the callee's own copy)
    t_steps,       \* run_steps: steps
    last_step,     \* run_steps: let mut last_step
    ret,           \* value returned by run_steps
    result,        \* value returned by run
    runs,          \* test::example: sessions completed on this checker
    candidate,     \* history: the sequence as generated
    first_fail,    \* history: count reported by the initial trial (0: none)
    gen_state,     \* history: the value M::gen returned
    trial_log,     \* history: slice and result of every trial that returned
    trunc_len,     \* history: steps.len() right after truncate
    accepted,      \* history: number of removals accepted
    trials,        \* history: number of calls of run_steps in this session
    gens,          \* history: number of generator draws in this session
    tested,        \* history: pos of the element at the cursor, per iteration
    raised,        \* history: where the latest panic outside step was raised
    applied        \* history: steps on which step() was invoked in this trial

\* the model under test and the caller's choices: fixed during a session
params == <<step_fn, state_dom, max_steps, fault, runs>>

\* locals of run
locals == <<state, steps, last_error, index, iter, n, shrink_steps>>

\* the frame of run_steps
frame == <<caller, t_state, t_steps, last_step, ret>>

\* history of run
hist_run == <<candidate, first_fail, gen_state, trunc_len, accepted, gens,
              tested, raised>>

\* history of run_steps
hist_trial == <<trial_log, trials, applied>>

vars == <<params, pc, locals, frame, result, hist_run, hist_trial>>

(***************************************************************************)
(* Bounds and domains                                                      *)
(***************************************************************************)
MaxSteps == 3

StateValues == {"s0", "s1"}

StepValues == BOOLEAN

\* Box<dyn Any + Send> carried by a panic: a &str, a String or anything else
Payloads == {[kind |-> "str", val |-> "a"],
             [kind |-> "String", val |-> "b"],
             [kind |-> "other", val |-> "c"]}

\* what one call of step() does: return with the state mutated, or panic
Next_(s) == [kind |-> "next", val |-> s]

Outcomes == {Next_(s) : s \in StateValues} \cup Payloads

StepFns == [StateValues \X StepValues -> Outcomes]

\* the step values of a model
StepDom(f) == {a[2] : a \in DOMAIN f}

(***************************************************************************)
(* The counter models: the state is a counter modulo three, a step value   *)
(* is bound to set(c), inc, assert_eq(c) or an unconditional panic         *)
(***************************************************************************)
CounterStates == {"s0", "s1", "s2"}

CounterSteps == {"x", "y", "z"}

Succ == [s \in CounterStates |->
           IF s = "s0" THEN "s1" ELSE IF s = "s1" THEN "s2" ELSE "s0"]

Ops == {[op |-> o, arg |-> c] : o \in {"set", "assert_eq"}, c \in CounterStates}
         \cup {[op |-> "inc", arg |-> "s0"], [op |-> "fail", arg |-> "s0"]}

OpOutcome(o, s) ==
    CASE o.op = "set" -> Next_(o.arg)
      [] o.op = "inc" -> Next_(Succ[s])
      [] o.op = "assert_eq" ->
           IF s = o.arg THEN Next_(s) ELSE [kind |-> "String", val |-> o.arg]
      [] OTHER -> [kind |-> "other", val |-> "c"]

CounterFns == {[a \in CounterStates \X CounterSteps |-> OpOutcome(g[a[2]], a[1])] :
                 g \in [CounterSteps -> Ops]}

\* the functions of the model, other than step, that run calls: M::gen,
\* M::Step::gen, M::clone and M::Step::clone
Faults == {"none", "gen_state", "gen_step", "clone_state", "clone_step"}

\* whether a call of the function op panics: only the faulty one can
MayPanic(op) == IF fault = op THEN BOOLEAN ELSE {FALSE}

\* the payload of a panic raised by gen or clone
HarnessPayload == [kind |-> "str", val |-> "harness"]

NoState == "NoState"

NoError == "NoError"

None == [tag |-> "none"]

\* a panic that leaves run
Panic == [tag |-> "panic"]

Ok == [tag |-> "ok"]

Err(e, c) == [tag |-> "err", error |-> e, count |-> c]

(***************************************************************************)
(* test::example                                                           *)
(***************************************************************************)
Sessions == 10

ExampleMaxSteps == 3

AssertPayload == [kind |-> "str", val |-> "assertion failed: step.0"]

\* impl Arbitrary for TestModel: the unit value
TestModelGen == {"TestModel"}

\* impl ModelState for TestModel: assert!(step.0)
TestModelStep == [a \in TestModelGen \X BOOLEAN |->
                     IF a[2] THEN Next_(a[1]) ELSE AssertPayload]

(***************************************************************************)
(* Pure helpers                                                            *)
(***************************************************************************)
\* mutant: only a &str payload is recognised
extract_panic_payload_str(err) ==
    IF err.kind = "str" THEN err.val
    ELSE "UNABLE TO SHOW RESULT OF PANIC."

\* ModelChecker::extract_panic_payload
extract_panic_payload(err) ==
    IF err.kind = "str" THEN err.val
    ELSE IF err.kind = "String" THEN err.val
    ELSE "UNABLE TO SHOW RESULT OF PANIC."

\* Vec::truncate(len): keeps the first len elements, no effect if len >= len()
truncate(v, len) == IF len >= Len(v) THEN v ELSE SubSeq(v, 1, len)

\* mutant: the last element is removed, whatever the cursor
remove_last(v, i) == SubSeq(v, 1, Len(v) - 1)

\* Vec::remove(i), 0-based, for i < len()
remove(v, i) == SubSeq(v, 1, i) \o SubSeq(v, i + 2, Len(v))

\* mutant: the inclusive range 0..=max_steps
StepCount_incl(m) == m + 1

\* mutant: at least one step is generated
StepCount_min(m) == IF m = 0 THEN 1 ELSE m

\* the number of steps collected: the range 0..max_steps (line 43)
StepCount(m) == m

\* mutant: the sequence is cut before the failing step
TruncateLen_short(failed_step) == failed_step - 1

\* the length steps.truncate is called with (line 54)
TruncateLen(failed_step) == failed_step + 1

\* mutant: the inclusive range 0..=steps.len()
LoopCount_incl(v) == Len(v) + 1

\* the number of iterations of the shrink loop: 0..steps.len() (line 57)
LoopCount(v) == Len(v)

\* mutant: the cursor skips an element
NextIndex_skip(i) == i + 2

\* mutant: the cursor is not advanced
NextIndex_stuck(i) == i

\* index += 1 (line 62)
NextIndex(i) == i + 1

\* mutant: last_step is incremented after state.step returns
CountAtPanic_after(before) == before

\* last_step += 1 runs before state.step, so a panic in step leaves the
\* incremented value (lines 83-84, 88)
CountAtPanic(before) == before + 1

\* run_steps as a function of the model, the state passed in and the slice:
\* the result after `done` steps have been applied without a panic
RECURSIVE RunStepsAt(_, _, _, _)
RunStepsAt(f, st, sq, done) ==
    IF done = Len(sq) THEN Ok
    ELSE LET out == f[<<st, sq[done + 1].val>>] IN
           IF out.kind = "next"
           THEN RunStepsAt(f, out.val, sq, done + 1)
           ELSE Err(extract_panic_payload(out), CountAtPanic(done))

run_steps(f, st, sq) == RunStepsAt(f, st, sq, 0)

\* the minimization loop as a function: sq and idx are steps and index with
\* `left` iterations of the for loop still to run
RECURSIVE ShrinkLoop(_, _, _, _, _)
ShrinkLoop(f, st, sq, idx, left) ==
    IF left = 0 \/ idx >= Len(sq) THEN sq
    ELSE LET c == remove(sq, idx) IN
           IF run_steps(f, st, c).tag = "ok"
           THEN ShrinkLoop(f, st, sq, NextIndex(idx), left - 1)
           ELSE ShrinkLoop(f, st, c, idx, left - 1)

\* one pass: cursor from 0, iteration count fixed to the input length
ShrinkPass(f, st, sq) == ShrinkLoop(f, st, sq, 0, LoopCount(sq))

\* the step value M::Step::gen draws; pos records the draw it came from
MkStep(p, b) == [pos |-> p, val |-> b]

(***************************************************************************)
(* run: generation (lines 42-45)                                           *)
(***************************************************************************)
\* a panic raised at `site` outside catch_unwind unwinds out of run
Propagate(site) ==
    /\ raised' = site
    /\ result' = Panic
    /\ pc' = "done"

GenState ==
    /\ pc = "gen_state"
    /\ \E p \in MayPanic("gen_state") :
         IF p
         THEN /\ Propagate("gen_state")
              /\ UNCHANGED <<state, gen_state, gens>>
         ELSE /\ \E s \in state_dom : state' = s
              /\ gen_state' = state'
              /\ gens' = gens + 1
              /\ pc' = "gen_steps"
              /\ UNCHANGED <<result, raised>>
    /\ UNCHANGED <<params, steps, last_error, index, iter, n, shrink_steps,
                   frame, candidate, first_fail, trunc_len, accepted, tested,
                   hist_trial>>

GenStep ==
    /\ pc = "gen_steps"
    /\ Len(steps) < StepCount(max_steps)
    /\ \E p \in MayPanic("gen_step") :
         IF p
         THEN /\ Propagate("gen_step")
              /\ UNCHANGED <<steps, gens>>
         ELSE /\ \E b \in StepDom(step_fn) :
                    steps' = Append(steps, MkStep(Len(steps) + 1, b))
              /\ gens' = gens + 1
              /\ UNCHANGED <<pc, result, raised>>
    /\ UNCHANGED <<params, state, last_error, index, iter, n, shrink_steps,
                   frame, candidate, first_fail, gen_state, trunc_len,
                   accepted, tested, hist_trial>>

(***************************************************************************)
(* run_steps (lines 79-89)                                                 *)
(***************************************************************************)
\* entry of run_steps(st, sq) from call site c
CallRunSteps(c, st, sq) ==
    /\ caller' = c
    /\ t_state' = st
    /\ t_steps' = sq
    /\ last_step' = 0
    /\ ret' = None
    /\ applied' = <<>>
    /\ trials' = trials + 1
    /\ pc' = "run_steps"
    /\ UNCHANGED trial_log

\* a trial that returned: its slice, its result and where the panic came from
LogEntry(sq, r, o) == [steps |-> sq, ret |-> r, origin |-> o]

\* mutant: catch_unwind encloses the call of step only, so a panic of
\* step.clone() leaves run_steps and run
Apply_narrow ==
    /\ pc = "run_steps"
    /\ last_step < Len(t_steps)
    /\ \E p \in MayPanic("clone_step") :
         IF p
         THEN /\ last_step' = CountAtPanic(last_step)
              /\ Propagate("step_clone")
              /\ UNCHANGED <<t_state, applied, ret, trial_log>>
         ELSE /\ applied' = Append(applied, t_steps[last_step + 1])
              /\ UNCHANGED <<raised, result>>
              /\ LET out == step_fn[<<t_state, t_steps[last_step + 1].val>>] IN
                   IF out.kind = "next"
                   THEN /\ last_step' = last_step + 1
                        /\ t_state' = out.val
                        /\ UNCHANGED <<pc, ret, trial_log>>
                   ELSE /\ last_step' = CountAtPanic(last_step)
                        /\ ret' = Err(extract_panic_payload(out), last_step')
                        /\ trial_log' = Append(trial_log, LogEntry(t_steps, ret', "step"))
                        /\ pc' = "ret"
                        /\ UNCHANGED t_state
    /\ UNCHANGED <<params, locals, caller, t_steps, candidate, first_fail,
                   gen_state, trunc_len, accepted, gens, tested, trials>>

\* one iteration of `for step in steps`: last_step += 1; state.step(step.clone())
Apply ==
    /\ pc = "run_steps"
    /\ last_step < Len(t_steps)
    /\ \E p \in MayPanic("clone_step") :
         IF p
         THEN \* step.clone() panics inside the closure of catch_unwind
              /\ last_step' = CountAtPanic(last_step)
              /\ ret' = Err(extract_panic_payload(HarnessPayload), last_step')
              /\ trial_log' = Append(trial_log, LogEntry(t_steps, ret', "step_clone"))
              /\ raised' = "step_clone"
              /\ pc' = "ret"
              /\ UNCHANGED <<t_state, applied>>
         ELSE /\ applied' = Append(applied, t_steps[last_step + 1])
              /\ UNCHANGED raised
              /\ LET out == step_fn[<<t_state, t_steps[last_step + 1].val>>] IN
                   IF out.kind = "next"
                   THEN /\ last_step' = last_step + 1
                        /\ t_state' = out.val
                        /\ UNCHANGED <<pc, ret, trial_log>>
                   ELSE \* the panic unwinds to catch_unwind; both map_err run
                        /\ last_step' = CountAtPanic(last_step)
                        /\ ret' = Err(extract_panic_payload(out), last_step')
                        /\ trial_log' = Append(trial_log, LogEntry(t_steps, ret', "step"))
                        /\ pc' = "ret"
                        /\ UNCHANGED t_state
    /\ UNCHANGED <<params, locals, caller, t_steps, result, candidate,
                   first_fail, gen_state, trunc_len, accepted, gens, tested,
                   trials>>

\* the for loop is exhausted: catch_unwind returns Ok(())
RunStepsOk ==
    /\ pc = "run_steps"
    /\ last_step = Len(t_steps)
    /\ ret' = Ok
    /\ trial_log' = Append(trial_log, LogEntry(t_steps, ret', "none"))
    /\ pc' = "ret"
    /\ UNCHANGED <<params, locals, caller, t_state, t_steps, last_step, result,
                   hist_run, trials, applied>>

(***************************************************************************)
(* run: initial trial (lines 47-55)                                        *)
(***************************************************************************)
InitialTrial ==
    /\ pc = "gen_steps"
    /\ Len(steps) = StepCount(max_steps)
    /\ \E p \in MayPanic("clone_state") :
         IF p
         THEN \* state.clone() is evaluated in run, before run_steps is entered
              /\ Propagate("state_clone")
              /\ UNCHANGED <<candidate, frame, hist_trial>>
         ELSE /\ candidate' = steps
              /\ CallRunSteps("initial", state, steps)
              /\ UNCHANGED <<result, raised>>
    /\ UNCHANGED <<params, locals, first_fail, gen_state, trunc_len, accepted,
                   gens, tested>>

\* mutant: no early return, the session goes on to minimization
InitialOk_fall ==
    /\ pc = "ret"
    /\ caller = "initial"
    /\ ret.tag = "ok"
    /\ index' = 0
    /\ iter' = 0
    /\ n' = LoopCount(steps)
    /\ pc' = "shrink"
    /\ UNCHANGED <<params, state, steps, last_error, shrink_steps, frame,
                   result, hist_run, hist_trial>>

InitialOk ==
    /\ pc = "ret"
    /\ caller = "initial"
    /\ ret.tag = "ok"
    /\ result' = Ok
    /\ pc' = "done"
    /\ UNCHANGED <<params, locals, frame, hist_run, hist_trial>>

InitialErr ==
    /\ pc = "ret"
    /\ caller = "initial"
    /\ ret.tag = "err"
    /\ last_error' = ret.error
    /\ first_fail' = ret.count
    /\ steps' = truncate(steps, TruncateLen(ret.count))
    /\ trunc_len' = Len(steps')
    /\ IF steps' = <<>>
       THEN \* assert!(!steps.is_empty()) panics out of run
            /\ result' = Panic
            /\ pc' = "done"
            /\ UNCHANGED <<index, iter, n>>
       ELSE /\ index' = 0
            /\ iter' = 0
            /\ n' = LoopCount(steps')
            /\ pc' = "shrink"
            /\ UNCHANGED result
    /\ UNCHANGED <<params, state, shrink_steps, frame, candidate, gen_state,
                   accepted, gens, tested, raised, hist_trial>>

(***************************************************************************)
(* run: minimization loop (lines 56-70) and return (lines 72-76)           *)
(***************************************************************************)
\* mutant: the trial starts from the state the previous trial left
ShrinkTrial_carry ==
    /\ pc = "shrink"
    /\ iter < n
    /\ iter' = iter + 1
    /\ index < Len(steps)
    /\ tested' = Append(tested, steps[index + 1].pos)
    /\ shrink_steps' = remove(steps, index)
    /\ CallRunSteps("shrink", t_state, shrink_steps')
    /\ UNCHANGED <<params, state, steps, last_error, index, n, result,
                   candidate, first_fail, gen_state, trunc_len, accepted,
                   gens, raised>>

ShrinkTrial ==
    /\ pc = "shrink"
    /\ iter < n
    /\ iter' = iter + 1
    /\ \E p \in MayPanic("clone_step"), q \in MayPanic("clone_state") :
         IF p
         THEN \* steps.clone() clones every step, in run
              /\ Propagate("steps_clone")
              /\ UNCHANGED <<shrink_steps, frame, hist_trial, tested>>
         ELSE IF index >= Len(steps)
         THEN \* Vec::remove panics out of run
              /\ result' = Panic
              /\ pc' = "done"
              /\ UNCHANGED <<shrink_steps, frame, hist_trial, tested, raised>>
         ELSE IF q
         THEN \* state.clone() is evaluated in run, before run_steps is entered
              /\ shrink_steps' = remove(steps, index)
              /\ tested' = Append(tested, steps[index + 1].pos)
              /\ Propagate("state_clone")
              /\ UNCHANGED <<frame, hist_trial>>
         ELSE /\ shrink_steps' = remove(steps, index)
              /\ tested' = Append(tested, steps[index + 1].pos)
              /\ CallRunSteps("shrink", state, shrink_steps')
              /\ UNCHANGED <<result, raised>>
    /\ UNCHANGED <<params, state, steps, last_error, index, n, candidate,
                   first_fail, gen_state, trunc_len, accepted, gens>>

\* mutant: the candidate replaces the working sequence when its trial succeeds
ShrinkOk_accept ==
    /\ pc = "ret"
    /\ caller = "shrink"
    /\ ret.tag = "ok"
    /\ steps' = shrink_steps
    /\ pc' = "shrink"
    /\ UNCHANGED <<params, state, last_error, index, iter, n, shrink_steps,
                   frame, result, hist_run, hist_trial>>

ShrinkOk ==
    /\ pc = "ret"
    /\ caller = "shrink"
    /\ ret.tag = "ok"
    /\ index' = NextIndex(index)
    /\ pc' = "shrink"
    /\ UNCHANGED <<params, state, steps, last_error, iter, n, shrink_steps,
                   frame, result, hist_run, hist_trial>>

\* mutant: the failing candidate does not replace the working sequence
ShrinkErr_keep ==
    /\ pc = "ret"
    /\ caller = "shrink"
    /\ ret.tag = "err"
    /\ last_error' = ret.error
    /\ accepted' = accepted + 1
    /\ pc' = "shrink"
    /\ UNCHANGED <<params, state, steps, index, iter, n, shrink_steps, frame,
                   result, candidate, first_fail, gen_state, trunc_len, gens,
                   tested, raised, hist_trial>>

\* mutant: the message of the failing candidate is not recorded
ShrinkErr_msg ==
    /\ pc = "ret"
    /\ caller = "shrink"
    /\ ret.tag = "err"
    /\ steps' = shrink_steps
    /\ accepted' = accepted + 1
    /\ pc' = "shrink"
    /\ UNCHANGED <<params, state, last_error, index, iter, n, shrink_steps,
                   frame, result, candidate, first_fail, gen_state, trunc_len,
                   gens, tested, raised, hist_trial>>

ShrinkErr ==
    /\ pc = "ret"
    /\ caller = "shrink"
    /\ ret.tag = "err"
    /\ last_error' = ret.error
    /\ steps' = shrink_steps
    /\ accepted' = accepted + 1
    /\ pc' = "shrink"
    /\ UNCHANGED <<params, state, index, iter, n, shrink_steps, frame, result,
                   candidate, first_fail, gen_state, trunc_len, gens,
                   tested, raised, hist_trial>>

FailedState(s, sq, e) == [tag |-> "err", state |-> s, steps |-> sq, error |-> e]

ReturnErr ==
    /\ pc = "shrink"
    /\ iter = n
    /\ result' = FailedState(state, steps, last_error)
    /\ pc' = "done"
    /\ UNCHANGED <<params, locals, frame, hist_run, hist_trial>>

(***************************************************************************)
(* Specification: one session of run for any model over two states and two *)
(* step values                                                             *)
(***************************************************************************)
Locals ==
    /\ pc = "gen_state"
    /\ state = NoState
    /\ steps = <<>>
    /\ last_error = NoError
    /\ index = 0
    /\ iter = 0
    /\ n = 0
    /\ shrink_steps = <<>>
    /\ caller = "none"
    /\ t_state = NoState
    /\ t_steps = <<>>
    /\ last_step = 0
    /\ ret = None
    /\ result = None
    /\ candidate = <<>>
    /\ first_fail = 0
    /\ gen_state = NoState
    /\ trunc_len = 0
    /\ accepted = 0
    /\ gens = 0
    /\ tested = <<>>
    /\ raised = "none"
    /\ trial_log = <<>>
    /\ trials = 0
    /\ applied = <<>>

Init ==
    /\ step_fn \in StepFns
    /\ state_dom = StateValues
    /\ max_steps \in 0..MaxSteps
    /\ fault = "none"
    /\ runs = 0
    /\ Locals

Next ==
    \/ GenState
    \/ GenStep
    \/ InitialTrial
    \/ Apply
    \/ RunStepsOk
    \/ InitialOk
    \/ InitialErr
    \/ ShrinkTrial
    \/ ShrinkOk
    \/ ShrinkErr
    \/ ReturnErr

Spec == Init /\ [][Next]_vars

(***************************************************************************)
(* Specification: one session of run for a counter model                   *)
(***************************************************************************)
InitCounter ==
    /\ step_fn \in CounterFns
    /\ state_dom = CounterStates
    /\ max_steps \in 0..MaxSteps
    /\ fault = "none"
    /\ runs = 0
    /\ Locals

SpecCounter == InitCounter /\ [][Next]_vars

(***************************************************************************)
(* Specification: test::example (lines 128-138)                            *)
(***************************************************************************)
InitExample ==
    /\ step_fn = TestModelStep
    /\ state_dom = TestModelGen
    /\ max_steps = ExampleMaxSteps
    /\ fault = "none"
    /\ runs = 0
    /\ Locals

\* the assertion of the test on the value run returned (lines 134-136)
ExampleAssert(r) ==
    IF r.tag = "ok" THEN TRUE
    ELSE Cardinality({i \in DOMAIN r.steps : ~r.steps[i].val}) = 1

\* the next iteration of `for _ in 0..10`: the same checker runs again
NextRun ==
    /\ pc = "done"
    /\ result.tag \in {"ok", "err"}
    /\ ExampleAssert(result)
    /\ runs + 1 < Sessions
    /\ runs' = runs + 1
    /\ pc' = "gen_state"
    /\ state' = NoState
    /\ steps' = <<>>
    /\ last_error' = NoError
    /\ index' = 0
    /\ iter' = 0
    /\ n' = 0
    /\ shrink_steps' = <<>>
    /\ caller' = "none"
    /\ t_state' = NoState
    /\ t_steps' = <<>>
    /\ last_step' = 0
    /\ ret' = None
    /\ result' = None
    /\ candidate' = <<>>
    /\ first_fail' = 0
    /\ gen_state' = NoState
    /\ trunc_len' = 0
    /\ accepted' = 0
    /\ gens' = 0
    /\ tested' = <<>>
    /\ raised' = "none"
    /\ trial_log' = <<>>
    /\ trials' = 0
    /\ applied' = <<>>
    /\ UNCHANGED <<step_fn, state_dom, max_steps, fault>>

NextExample == Next \/ NextRun

SpecExample == InitExample /\ [][NextExample]_vars

(***************************************************************************)
(* Specification: one session of run where a gen or clone function of the  *)
(* model may panic                                                         *)
(***************************************************************************)
InitFault ==
    /\ step_fn \in StepFns
    /\ state_dom = StateValues
    /\ max_steps \in 0..MaxSteps
    /\ fault \in Faults
    /\ runs = 0
    /\ Locals

SpecFault == InitFault /\ [][Next]_vars

(***************************************************************************)
(* Claims                                                                  *)
(***************************************************************************)
\* run has returned a failure report
Failed == pc = "done" /\ result.tag = "err"

\* what applying sq in order from st does: the outcome of every call of step
\* up to and including the first one that panics
RECURSIVE Trace(_, _, _, _)
Trace(f, st, sq, i) ==
    IF i > Len(sq) THEN <<>>
    ELSE LET out == f[<<st, sq[i].val>>] IN
           IF out.kind = "next" THEN <<out>> \o Trace(f, out.val, sq, i + 1)
           ELSE <<out>>

\* applying sq from st ends in a panic
Fails(f, st, sq) ==
    LET tr == Trace(f, st, sq, 1) IN tr # <<>> /\ tr[Len(tr)].kind # "next"

\* whether step panics depends on the step value alone, not on the state
StepOnly(f) ==
    \A a \in DOMAIN f, b \in DOMAIN f :
        a[2] = b[2] => ((f[a].kind = "next") <=> (f[b].kind = "next"))

\* sq is sub with some elements left out, order kept (pos increases strictly
\* along a generated sequence)
IsSubseq(sub, sq) ==
    /\ \A i \in DOMAIN sub : \E j \in DOMAIN sq : sq[j] = sub[i]
    /\ \A i \in DOMAIN sub : i > 1 => sub[i - 1].pos < sub[i].pos

\* the last trial in the log that failed
LastFailing ==
    LET I == {i \in DOMAIN trial_log : trial_log[i].ret.tag = "err"}
    IN trial_log[CHOOSE i \in I : \A j \in I : j <= i]

\* C1 (replay): whenever run has returned a failure report, applying the
\* report's steps in order to the report's state panics again.
C1_Replay == Failed => Fails(step_fn, result.state, result.steps)

C1_Witness ==
    /\ Failed
    /\ accepted > 0
    /\ accepted < trunc_len
    /\ Len(result.steps) > 1

\* C2 (truncation): once the initial trial has failed with count k, the
\* working sequence at the start of minimization has exactly k elements, and
\* no step generated after the k-th is in the working sequence, in a shrink
\* candidate or in the report.
C2_Truncation ==
    first_fail > 0 =>
        /\ trunc_len = first_fail
        /\ \A i \in DOMAIN steps : steps[i].pos <= first_fail
        /\ \A i \in DOMAIN shrink_steps : shrink_steps[i].pos <= first_fail
        /\ Failed => \A i \in DOMAIN result.steps : result.steps[i].pos <= first_fail

\* C3 (boolean-assert scenario): every session of test::example returns
\* success exactly when no generated step is false, and otherwise a report
\* of exactly one step, which is false.
C3_Example ==
    pc = "done" =>
        /\ result.tag \in {"ok", "err"}
        /\ (result.tag = "ok") <=> (\A i \in DOMAIN candidate : candidate[i].val)
        /\ result.tag = "err" =>
              /\ Len(result.steps) = 1
              /\ ~result.steps[1].val
              /\ ExampleAssert(result)

C3_Witness ==
    /\ Failed
    /\ runs = Sessions - 1
    /\ Cardinality({i \in DOMAIN candidate : ~candidate[i].val}) >= 2
    /\ candidate[1].val

\* C4 as stated (fixed point of one pass): a second pass over the returned
\* sequence, from the same initial state, returns that sequence.
C4_FixedPoint ==
    Failed => ShrinkPass(step_fn, result.state, result.steps) = result.steps

\* C4 amended: the returned sequence is the result of one pass over the
\* truncated sequence; a second pass returns a sequence that still fails and
\* is a subsequence of the first result; it returns the first result itself
\* when whether step panics depends on the step value alone.
C4_Amended ==
    Failed =>
        LET second == ShrinkPass(step_fn, result.state, result.steps) IN
        /\ result.steps = ShrinkPass(step_fn, gen_state,
                                     SubSeq(candidate, 1, trunc_len))
        /\ Fails(step_fn, result.state, second)
        /\ IsSubseq(second, result.steps)
        /\ StepOnly(step_fn) => second = result.steps

C4_Witness ==
    /\ Failed
    /\ StepOnly(step_fn)
    /\ accepted > 0
    /\ index > 0
    /\ ShrinkPass(step_fn, result.state, result.steps) = result.steps

\* C5 (run never raises): no panic leaves run; the truncated sequence is
\* never empty, the cursor is inside the working sequence whenever an
\* element is removed, and run ends with success or a failure report.
C5_NoPanic ==
    /\ result # Panic
    /\ pc = "done" => result.tag \in {"ok", "err"}
    /\ first_fail > 0 => trunc_len >= 1
    /\ (pc = "shrink" /\ iter < n) => index < Len(steps)

C5_Witness ==
    /\ Failed
    /\ accepted > 0
    /\ index > 0
    /\ iter = trunc_len

\* C6 (non-growth): after the initial trial has failed, the working sequence
\* is no longer than the truncated sequence, which is no longer than
\* max_steps; the report's sequence is no longer than the truncated one; and
\* no step of the session makes the working sequence longer.
C6_NonGrowth ==
    /\ [](first_fail > 0 =>
            /\ Len(steps) <= trunc_len
            /\ trunc_len <= max_steps
            /\ Failed => Len(result.steps) <= trunc_len)
    /\ [][(first_fail > 0 /\ first_fail' > 0) => Len(steps') <= Len(steps)]_vars

C6_Witness ==
    /\ Failed
    /\ trunc_len = max_steps
    /\ Len(result.steps) < trunc_len
    /\ Len(result.steps) > 1

\* C7 (success path purity): if the trial of the full candidate sequence
\* succeeded, run returns success after exactly one trial, with nothing
\* truncated and no iteration of the minimization loop.
C7_SuccessPure ==
    (pc = "done" /\ trial_log[1].ret.tag = "ok") =>
        /\ result = Ok
        /\ trials = 1
        /\ Len(trial_log) = 1
        /\ trial_log[1].steps = candidate
        /\ steps = candidate
        /\ iter = 0
        /\ shrink_steps = <<>>

C7_Witness ==
    /\ pc = "done"
    /\ result = Ok
    /\ Len(candidate) = MaxSteps
    /\ \E a \in DOMAIN step_fn : step_fn[a].kind # "next"

\* C8 (boundary): in a session with max_steps = 0 step is never invoked, no
\* failure report is produced and run returns success.
C8_Zero ==
    max_steps = 0 =>
        /\ applied = <<>>
        /\ \A i \in DOMAIN trial_log : trial_log[i].steps = <<>>
        /\ result.tag \in {"none", "ok"}
        /\ pc = "done" => result = Ok

C8_Witness ==
    /\ pc = "done"
    /\ max_steps = 0
    /\ \A a \in DOMAIN step_fn : step_fn[a].kind # "next"

\* C9 (report contents): a failure report holds the state generated at the
\* start of the session, the working sequence after the last iteration, and
\* the message of the last failing trial: the initial trial when no removal
\* was accepted, else the last accepted shrink trial, whose slice is then the
\* reported sequence.
C9_Report ==
    Failed =>
        /\ result.state = gen_state
        /\ state = gen_state
        /\ result.steps = steps
        /\ result.error = LastFailing.ret.error
        /\ accepted = 0 =>
              /\ result.error = trial_log[1].ret.error
              /\ result.steps = SubSeq(candidate, 1, trunc_len)
        /\ accepted > 0 =>
              /\ LastFailing.steps = result.steps
              /\ LastFailing # trial_log[1]

C9_Witness ==
    /\ Failed
    /\ accepted > 0
    /\ result.error # trial_log[1].ret.error
    /\ trial_log[Len(trial_log)].ret.tag = "ok"

\* C10 (trial outcome): a trial applies the steps of its slice left to
\* right, each once, to the state passed in; when it returns a failure, the
\* count is the number of steps step was invoked on, between 1 and the length
\* of the slice, the last of them panicked and no earlier one did, and the
\* message is the one extracted from that panic; when it returns success,
\* step was invoked on every step and none panicked.
C10_Trial ==
    /\ pc \in {"run_steps", "ret"} =>
          /\ Len(applied) <= Len(t_steps)
          /\ applied = SubSeq(t_steps, 1, Len(applied))
    /\ pc = "ret" =>
          LET tr == Trace(step_fn, gen_state, t_steps, 1) IN
          /\ Len(applied) = Len(tr)
          /\ ret.tag = "err" =>
                /\ ret.count = Len(applied)
                /\ ret.count \in 1..Len(t_steps)
                /\ tr[ret.count].kind # "next"
                /\ ret.error = extract_panic_payload(tr[ret.count])
          /\ ret.tag = "ok" =>
                /\ applied = t_steps
                /\ \A i \in DOMAIN tr : tr[i].kind = "next"

C10_Witness ==
    /\ pc = "ret"
    /\ ret.tag = "err"
    /\ ret.count > 1
    /\ ret.count < Len(t_steps)

\* the model f with every payload that is not a string replaced by a string
Strung(f) ==
    [a \in DOMAIN f |-> IF f[a].kind = "other" THEN [kind |-> "str", val |-> "a"]
                        ELSE f[a]]

Placeholder == "UNABLE TO SHOW RESULT OF PANIC."

\* the sites of run, outside catch_unwind, where gen or clone is called
OutsideSites == {"gen_state", "gen_step", "state_clone", "steps_clone"}

\* C12 (loop accounting): with n the length of the working sequence at the
\* start of minimization, every iteration i starts with length - cursor =
\* n - i, so the cursor is inside the sequence; iteration i tests the i-th
\* element of the truncated sequence, one trial each; the loop ends after n
\* shrink trials with cursor = length.
C12_Accounting ==
    /\ pc = "shrink" =>
          /\ n = trunc_len
          /\ Len(steps) - index = n - iter
          /\ iter < n => index < Len(steps)
          /\ trials = 1 + iter
          /\ Len(tested) = iter
          /\ \A i \in DOMAIN tested : tested[i] = i
    /\ Failed =>
          /\ iter = trunc_len
          /\ index = Len(steps)
          /\ trials = 1 + trunc_len
          /\ Len(tested) = trunc_len
          /\ \A i \in DOMAIN tested : tested[i] = i

C12_Witness ==
    /\ Failed
    /\ trunc_len = MaxSteps
    /\ accepted > 0
    /\ index > 1

\* C13 (accept/reject step): the candidate passed to a shrink trial is the
\* working sequence without the element at the cursor, the others in order;
\* when the trial fails the candidate becomes the working sequence, its
\* message is recorded and the cursor stays; when it succeeds the working
\* sequence and the message stay and the cursor advances by one.
C13_AcceptReject ==
    [][/\ (pc = "shrink" /\ pc' = "run_steps") =>
            /\ t_steps' = shrink_steps'
            /\ Len(shrink_steps') = Len(steps) - 1
            /\ \A i \in DOMAIN shrink_steps' :
                  shrink_steps'[i] = steps[IF i <= index THEN i ELSE i + 1]
            /\ steps' = steps /\ index' = index /\ last_error' = last_error
       /\ (pc = "ret" /\ caller = "shrink" /\ ret.tag = "err") =>
            /\ steps' = t_steps
            /\ last_error' = ret.error
            /\ index' = index
       /\ (pc = "ret" /\ caller = "shrink" /\ ret.tag = "ok") =>
            /\ steps' = steps
            /\ last_error' = last_error
            /\ index' = index + 1]_vars

C13_Witness ==
    /\ pc = "shrink"
    /\ iter < n
    /\ accepted > 0
    /\ index > 0
    /\ last_error # trial_log[1].ret.error

\* C14 (fresh state per trial): once generated, the state of run is never
\* modified; every trial starts from that value, whatever the earlier trials
\* did to their copies; the report holds that value.
C14_Fresh ==
    /\ [](pc # "gen_state" => state = gen_state)
    /\ [](Failed => result.state = gen_state)
    /\ [][(pc # "run_steps" /\ pc' = "run_steps") => t_state' = gen_state]_vars
    /\ [][pc = "run_steps" => state' = state]_vars

C14_Witness ==
    /\ Failed
    /\ accepted > 0
    /\ t_state # gen_state
    /\ \E i \in DOMAIN trial_log :
          /\ i < Len(trial_log)
          /\ trial_log[i].ret.tag = "err"
          /\ trial_log[i].ret.count > 1

\* C15 (shape of the result): from the truncation on, the working sequence
\* is non-empty, is the generated sequence with some elements left out, and
\* fails when applied to the initial state; so does the report's sequence.
C15_Shape ==
    /\ first_fail > 0 =>
          /\ steps # <<>>
          /\ IsSubseq(steps, candidate)
          /\ Fails(step_fn, gen_state, steps)
    /\ Failed =>
          /\ result.steps # <<>>
          /\ IsSubseq(result.steps, candidate)
          /\ Fails(step_fn, result.state, result.steps)

C15_Witness ==
    /\ Failed
    /\ Len(result.steps) = 2
    /\ result.steps[2].pos > result.steps[1].pos + 1

\* C16 (message matches the returned trace): replaying the report's steps
\* on the report's state fails with the report's error string.
C16_Message ==
    Failed =>
        LET r == run_steps(step_fn, result.state, result.steps) IN
        /\ r.tag = "err"
        /\ r.error = result.error

C16_Witness ==
    /\ Failed
    /\ accepted > 0
    /\ Len(result.steps) > 1
    /\ result.error # trial_log[1].ret.error

\* C17 (generation happens once): the state is drawn first, then the steps;
\* when the first trial starts exactly 1 + max_steps draws have been made,
\* and no draw is made afterwards, whether the session fails or not.
C17_GenOnce ==
    /\ [](pc = "gen_steps" => (gens = 1 + Len(steps) /\ trials = 0))
    /\ [](pc = "gen_state" => (gens = 0 /\ trials = 0))
    /\ [](trials > 0 => gens = 1 + max_steps)
    /\ [][trials > 0 =>
            (gens' = gens /\ gen_state' = gen_state /\ candidate' = candidate)]_vars

C17_Witness ==
    /\ Failed
    /\ max_steps = MaxSteps
    /\ trials = 1 + MaxSteps
    /\ gens = 1 + MaxSteps

\* C18 as stated (capture scope): only a panic of step becomes a failing
\* trial; every panic raised by gen or clone leaves run.
C18_Scope ==
    /\ \A i \in DOMAIN trial_log :
          trial_log[i].ret.tag = "err" => trial_log[i].origin = "step"
    /\ raised # "none" => (pc = "done" /\ result = Panic)

\* C18 amended: a failing trial comes from a panic raised inside the loop of
\* run_steps, by step or by the clone of the step passed to it; a panic of
\* gen or clone raised in run leaves run, and nothing else does.
C18_Amended ==
    /\ \A i \in DOMAIN trial_log :
          trial_log[i].ret.tag = "err" =>
              trial_log[i].origin \in {"step", "step_clone"}
    /\ raised \in OutsideSites => (pc = "done" /\ result = Panic)
    /\ result = Panic => raised \in OutsideSites
    /\ raised = "step_clone" =>
          \E i \in DOMAIN trial_log :
              /\ trial_log[i].origin = "step_clone"
              /\ trial_log[i].ret.error = "harness"

C18_Witness ==
    /\ Failed
    /\ raised = "step_clone"
    /\ result.error = "harness"

\* C19 (placeholder message): a failing trial's message is the payload's
\* string when the payload is a &str or a String and the fixed placeholder
\* otherwise; the count of the initial trial and the reported sequence are
\* those of the same model with string payloads.
C19_Message ==
    /\ (pc = "ret" /\ ret.tag = "err") =>
          LET tr == Trace(step_fn, gen_state, t_steps, 1)
              pl == tr[Len(tr)]
          IN /\ pl.kind \in {"str", "String"} => ret.error = pl.val
             /\ pl.kind = "other" => ret.error = Placeholder
    /\ Failed =>
          /\ first_fail = run_steps(Strung(step_fn), gen_state, candidate).count
          /\ result.steps = ShrinkPass(Strung(step_fn), gen_state,
                                       SubSeq(candidate, 1, trunc_len))

C19_Witness ==
    /\ Failed
    /\ result.error = Placeholder
    /\ accepted > 0
    /\ \E i \in DOMAIN trial_log : trial_log[i].ret.tag = "err"
                                   /\ trial_log[i].ret.error = "b"

====
